---- MODULE Spec2Model ----
(***************************************************************************)
(* Model of osbuild/release-action:                                        *)
(*   create_tag.py            version resolution, commit enumeration,      *)
(*                            pull-request correlation, changelog          *)
(*                            assembly, tag creation and push              *)
(*   slack_notify_release.py  release announcement with threaded notes     *)
(*                                                                         *)
(* Representation.                                                         *)
(*   - A dotted numeric version string "1.2.3" is the tuple <<1, 2, 3>>    *)
(*     (packaging's Version.release); Python's None is the empty tuple,    *)
(*     which is no release.                                                *)
(*   - The text a command prints is the sequence of its lines.             *)
(*   - A changelog entry is the sequence of its character codes, so that   *)
(*     sorted() compares entries the way Python compares strings.          *)
(***************************************************************************)
EXTENDS Integers, Sequences, FiniteSets, TLC

VARIABLES
    \* create_tag.py
    args,            \* argparse namespace: version, semver, semver_bump_type, dry_run
    repo,            \* os.path.basename(os.getcwd())
    pc,              \* position in main()
    latest_version,  \* main's local: [bound, value]
    latest_tag,      \* main's local: [bound, value]
    tag,             \* the tag name, the version behind the "v"
    hashes,          \* create_release_tag's local
    subjects,        \* create_release_tag's local
    i,               \* get_pullrequest_infos' loop variable
    summaries,       \* get_pullrequest_infos' local
    reported,        \* the counts msg_ok printed at line 168
    calls,           \* mutating git commands run so far
    out,             \* msg_ok / msg_info lines of the publishing steps
    exit_code,       \* "none" while running, then "0" or "1"
    error,           \* the uncaught exception that ended the run, if any
    git,             \* the repository: commits since the last release, tags made and pushed
    searched,        \* the hashes searched for so far, in order
    found,           \* what the latest search returned: [ok, matches]
    \* slack_notify_release.py
    sargs,           \* argparse namespace of the notification script
    spc,             \* position in its main()
    notes_file,      \* the release-notes file: "unread", then what open() met
    release_notes,   \* main's local
    response,        \* the main post's response, once posted
    posts,           \* chat.postMessage calls made so far
    sexit,           \* "none" while running, then "0" or "1"
    \* autoincrement_version on its own
    vin,             \* its arguments
    vout,            \* its return value
    vpc

tagVars == <<args, repo, pc, latest_version, latest_tag, tag, hashes, subjects, i,
             summaries, reported, calls, out, exit_code, error, git, searched, found>>
slackVars == <<sargs, spc, notes_file, release_notes, response, posts, sexit>>
versionVars == <<vin, vout, vpc>>
vars == <<tagVars, slackVars, versionVars>>

----------------------------------------------------------------------------
(* Bounds of the model *)

MaxCommits == 2
MaxTags == 2
MaxRelease == 3
MaxComponent == 2

----------------------------------------------------------------------------
(* Sequences *)

Range(s) == { s[k] : k \in DOMAIN s }

SeqsUpTo(S, n) == UNION { [1..k -> S] : k \in 0..n }

\* Lexicographic order on sequences of integers: Python's order on strings
\* (by code point) and on tuples of integers.
RECURSIVE LexLess(_, _)
LexLess(a, b) ==
    IF b = <<>> THEN FALSE
    ELSE IF a = <<>> THEN TRUE
    ELSE IF Head(a) # Head(b) THEN Head(a) < Head(b)
    ELSE LexLess(Tail(a), Tail(b))

----------------------------------------------------------------------------
(* packaging.version.Version, restricted to its release segment *)

None == <<>>

Releases == UNION { [1..k -> 0..MaxComponent] : k \in 1..MaxRelease }

\* Version.major / .minor / .micro: a missing component reads as 0.
Major(release) == IF Len(release) >= 1 THEN release[1] ELSE 0
Minor(release) == IF Len(release) >= 2 THEN release[2] ELSE 0
Micro(release) == IF Len(release) >= 3 THEN release[3] ELSE 0

\* Version._key: trailing zeros do not count in a comparison (1.0 == 1).
RECURSIVE StripZeros(_)
StripZeros(release) ==
    IF release # <<>> /\ release[Len(release)] = 0
    THEN StripZeros(SubSeq(release, 1, Len(release) - 1))
    ELSE release

VersionLess(a, b) == LexLess(StripZeros(a), StripZeros(b))

\* list.sort() on Version objects: stable, ascending.
RECURSIVE InsertVersion(_, _)
InsertVersion(sorted, v) ==
    IF sorted = <<>> THEN <<v>>
    ELSE IF VersionLess(v, sorted[Len(sorted)])
         THEN Append(InsertVersion(SubSeq(sorted, 1, Len(sorted) - 1), v),
                     sorted[Len(sorted)])
         ELSE Append(sorted, v)

RECURSIVE SortVersions(_)
SortVersions(versions) ==
    IF versions = <<>> THEN <<>>
    ELSE InsertVersion(SortVersions(SubSeq(versions, 1, Len(versions) - 1)),
                       versions[Len(versions)])

----------------------------------------------------------------------------
(* autoincrement_version *)

BumpTypes == {"major", "minor", "patch"}

\* autoincrement_version with a minor bump that keeps the patch number
autoincrement_version_keeps_patch(latest, semver, semver_bump_type) ==
    IF latest = None THEN
        IF semver THEN
            CASE semver_bump_type = "major" -> <<1, 0, 0>>
              [] semver_bump_type = "minor" -> <<0, 1, 0>>
              [] semver_bump_type = "patch" -> <<0, 0, 1>>
        ELSE <<1>>
    ELSE IF semver THEN
        IF semver_bump_type = "minor"
        THEN <<Major(latest), Minor(latest) + 1, Micro(latest)>>
        ELSE IF semver_bump_type = "patch"
             THEN <<Major(latest), Minor(latest), Micro(latest) + 1>>
        ELSE <<Major(latest) + 1, 0, 0>>
    ELSE IF Len(latest) > 1 THEN
        Append(SubSeq(latest, 1, Len(latest) - 1), latest[Len(latest)] + 1)
    ELSE <<Major(latest) + 1>>

\* autoincrement_version whose plain mode bumps the second component of a
\* dotted version instead of the last
autoincrement_version_bumps_second(latest, semver, semver_bump_type) ==
    IF latest = None THEN
        IF semver THEN
            CASE semver_bump_type = "major" -> <<1, 0, 0>>
              [] semver_bump_type = "minor" -> <<0, 1, 0>>
              [] semver_bump_type = "patch" -> <<0, 0, 1>>
        ELSE <<1>>
    ELSE IF semver THEN
        IF semver_bump_type = "minor" THEN <<Major(latest), Minor(latest) + 1, 0>>
        ELSE IF semver_bump_type = "patch"
             THEN <<Major(latest), Minor(latest), Micro(latest) + 1>>
        ELSE <<Major(latest) + 1, 0, 0>>
    ELSE IF Len(latest) > 1 THEN
        [latest EXCEPT ![2] = @ + 1]
    ELSE <<Major(latest) + 1>>

autoincrement_version(latest, semver, semver_bump_type) ==
    IF latest = None THEN
        IF semver THEN
            CASE semver_bump_type = "major" -> <<1, 0, 0>>
              [] semver_bump_type = "minor" -> <<0, 1, 0>>
              [] semver_bump_type = "patch" -> <<0, 0, 1>>
        ELSE <<1>>
    ELSE IF semver THEN
        IF semver_bump_type = "minor" THEN <<Major(latest), Minor(latest) + 1, 0>>
        ELSE IF semver_bump_type = "patch"
             THEN <<Major(latest), Minor(latest), Micro(latest) + 1>>
        ELSE <<Major(latest) + 1, 0, 0>>
    ELSE IF Len(latest) > 1 THEN
        Append(SubSeq(latest, 1, Len(latest) - 1), latest[Len(latest)] + 1)
    ELSE <<Major(latest) + 1>>

----------------------------------------------------------------------------
(* run_command *)

RECURSIVE LStrip(_)
LStrip(text) == IF text # <<>> /\ Head(text) = "" THEN LStrip(Tail(text)) ELSE text

RECURSIVE RStrip(_)
RStrip(text) ==
    IF text # <<>> /\ text[Len(text)] = ""
    THEN RStrip(SubSeq(text, 1, Len(text) - 1))
    ELSE text

\* str.strip() on the captured output: the blank lines at either end go; a
\* blank line between two others stays.
Strip(text) == RStrip(LStrip(text))

\* run_command(argv).splitlines(): stdout when the command returned 0, stderr
\* otherwise; stripped, then split into lines.
run_command(returncode_ok, stdout, stderr) ==
    IF returncode_ok THEN Strip(stdout) ELSE Strip(stderr)

----------------------------------------------------------------------------
(* The tags and the history the repository can hold *)

TagNames == {"v1", "v1.0", "v0.2.1", "nightly"}

\* Version(tag).release; None stands for InvalidVersion being raised.
ParseVersion(name) ==
    CASE name = "v1" -> <<1>>
      [] name = "v1.0" -> <<1, 0>>
      [] name = "v0.2.1" -> <<0, 2, 1>>
      [] OTHER -> None

ExplicitVersions == {<<2, 0>>}

PostReleaseVersionBump == "Post release version bump"

Subjects == {"", PostReleaseVersionBump, "Fix the build"}

Hash(k) == "h" \o ToString(k)

GitLogStderr == <<"fatal: bad revision">>

----------------------------------------------------------------------------
(* The forge: pull requests, users, reviews *)

PullRequests ==
    { [title |-> <<97>>, number |-> 2, login |-> "alice"],
      [title |-> <<98>>, number |-> 1, login |-> "bob"] }

NoPullRequest == [title |-> <<>>, number |-> 0, login |-> ""]

\* user['name'] of a login
FullName(login) ==
    CASE login = "alice" -> <<65>>
      [] login = "bob" -> <<66>>
      [] login = "carol" -> <<67>>
      [] OTHER -> <<68>>

\* the review entries the forge holds for a pull request
Reviews(number) ==
    IF number = 2
    THEN << [state |-> "APPROVED", login |-> "dave"],
            [state |-> "COMMENTED", login |-> "bob"],
            [state |-> "APPROVED", login |-> "carol"],
            [state |-> "APPROVED", login |-> "dave"] >>
    ELSE <<>>

Nobody == <<78, 111, 98, 111, 100, 121>>

----------------------------------------------------------------------------
(* sorted(), dict.fromkeys() and str.join() on strings *)

RECURSIVE Insert(_, _)
Insert(sorted, s) ==
    IF sorted = <<>> THEN <<s>>
    ELSE IF LexLess(s, sorted[Len(sorted)])
         THEN Append(Insert(SubSeq(sorted, 1, Len(sorted) - 1), s), sorted[Len(sorted)])
         ELSE Append(sorted, s)

RECURSIVE Sorted(_)
Sorted(strings) ==
    IF strings = <<>> THEN <<>>
    ELSE Insert(Sorted(SubSeq(strings, 1, Len(strings) - 1)), strings[Len(strings)])

\* list(dict.fromkeys(strings)): the first occurrence of each, in order
RECURSIVE FromKeys(_)
FromKeys(strings) ==
    IF strings = <<>> THEN <<>>
    ELSE LET front == FromKeys(SubSeq(strings, 1, Len(strings) - 1))
             s == strings[Len(strings)]
         IN IF s \in Range(front) THEN front ELSE Append(front, s)

RECURSIVE Join(_, _)
Join(sep, strings) ==
    IF strings = <<>> THEN <<>>
    ELSE IF Len(strings) = 1 THEN strings[1]
    ELSE strings[1] \o sep \o Join(sep, Tail(strings))

Digit(n) == <<48 + n>>

----------------------------------------------------------------------------
(* list_reviewers_for_pr, list_prs_for_hash and the changelog entry *)

\* What the forge may answer to one commit's queries: the search fails or
\* returns items; the review listing fails or not; the user queries of the
\* logins in `failing` raise.
SearchResults ==
    { [ok |-> FALSE, items |-> <<>>] }
    \cup { [ok |-> TRUE, items |-> its] : its \in SeqsUpTo(PullRequests, 2) }

FailingUsers == { {}, {"alice", "bob"}, {"carol"} }

\* The reviews and the users are asked for only when the search returned a
\* single pull request.
ForgeAnswers ==
    { [search |-> s, reviews_ok |-> TRUE, failing |-> {}] :
        s \in { x \in SearchResults : ~x.ok \/ Len(x.items) # 1 } }
    \cup [search : { x \in SearchResults : x.ok /\ Len(x.items) = 1 },
          reviews_ok : BOOLEAN, failing : FailingUsers]

RECURSIVE Approvers(_)
Approvers(res) ==
    IF res = <<>> THEN <<>>
    ELSE IF Head(res).state = "APPROVED"
         THEN <<Head(res).login>> \o Approvers(Tail(res))
         ELSE Approvers(Tail(res))

\* [raised, reviewers]: raised when get_full_username raises for an approver.
list_reviewers_for_pr(reviews_ok, failing, pr_number) ==
    LET res == IF reviews_ok THEN Reviews(pr_number) ELSE <<>>
        logins == Approvers(res)
        reviewers == [k \in DOMAIN logins |-> FullName(logins[k])]
    IN  IF Range(logins) \cap failing # {}
        THEN [raised |-> TRUE, reviewers |-> <<>>]
        ELSE [raised |-> FALSE, reviewers |-> Sorted(FromKeys(reviewers))]

\* list_prs_for_hash taking the first of several matches instead of skipping
list_prs_for_hash_first(search, reviews_ok, failing) ==
    IF search.ok /\ Len(search.items) >= 1 THEN
        LET pull_request == search.items[1]
            rev == list_reviewers_for_pr(reviews_ok, failing, pull_request.number)
        IN  IF pull_request.login \in failing \/ rev.raised
            THEN [raised |-> TRUE, pull_request |-> NoPullRequest,
                  author |-> Nobody, reviewers |-> <<Nobody>>]
            ELSE [raised |-> FALSE, pull_request |-> pull_request,
                  author |-> FullName(pull_request.login), reviewers |-> rev.reviewers]
    ELSE [raised |-> FALSE, pull_request |-> NoPullRequest,
          author |-> Nobody, reviewers |-> <<Nobody>>]

\* [raised, pull_request, author, reviewers]
list_prs_for_hash(search, reviews_ok, failing) ==
    IF search.ok /\ Len(search.items) = 1 THEN
        LET pull_request == search.items[1]
            rev == list_reviewers_for_pr(reviews_ok, failing, pull_request.number)
        IN  IF pull_request.login \in failing \/ rev.raised
            THEN [raised |-> TRUE, pull_request |-> NoPullRequest,
                  author |-> Nobody, reviewers |-> <<Nobody>>]
            ELSE [raised |-> FALSE, pull_request |-> pull_request,
                  author |-> FullName(pull_request.login), reviewers |-> rev.reviewers]
    ELSE [raised |-> FALSE, pull_request |-> NoPullRequest,
          author |-> Nobody, reviewers |-> <<Nobody>>]

Repos == {"cockpit-composer", "osbuild"}

\* the msg of get_pullrequest_infos, as character codes
Msg(component, pull_request, author, reviewers) ==
    IF component = "cockpit-composer" THEN
        <<45, 32>> \o pull_request.title \o <<32, 40, 35>> \o Digit(pull_request.number)
            \o <<41, 10>>
            \o <<32, 32, 45, 32, 65, 117, 116, 104, 111, 114, 58, 32>> \o author
            \o <<44, 32, 82, 101, 118, 105, 101, 119, 101, 114, 115, 58, 32>>
            \o Join(<<44, 32>>, reviewers) \o <<41>>
    ELSE
        <<32, 32, 42, 32>> \o pull_request.title \o <<32, 40, 35>> \o Digit(pull_request.number)
            \o <<41, 10>>
            \o <<32, 32, 32, 32, 42, 32, 65, 117, 116, 104, 111, 114, 58, 32>> \o author
            \o <<44, 32, 82, 101, 118, 105, 101, 119, 101, 114, 115, 58, 32>>
            \o Join(<<44, 32>>, reviewers)

\* line 167 without the deduplication
CollectedSummaries_sorted_only(entries) == Sorted(entries)

\* line 167: deduplicate the summaries and sort them
CollectedSummaries(entries) == Sorted(FromKeys(entries))

\* line 168: the commit count msg_ok prints is the loop variable i, the index
\* of the last commit
ReportedCommits(loop_i) == loop_i

\* line 184: don't release when there are no changes
NoNewCommits(hs, subjs) ==
    (Len(hs) < 1) \/ (Len(subjs) = 1 /\ subjs[1] = PostReleaseVersionBump)

----------------------------------------------------------------------------
(* create_tag.py: main *)

Unbound == [bound |-> FALSE, value |-> None]

NotSearched == [ok |-> FALSE, matches |-> 0]

Bound(v) == [bound |-> TRUE, value |-> v]

\* The bump type is read only in semver mode (lines 64 and 74): without
\* --semver it is left at its default.
Args ==
    { a \in [version : {None} \cup ExplicitVersions, semver : BOOLEAN,
             semver_bump_type : BumpTypes, dry_run : BOOLEAN] :
        a.semver \/ a.semver_bump_type = "major" }

TagInit ==
    /\ args \in Args
    /\ repo \in Repos
    /\ pc = "main"
    /\ latest_version = Unbound
    /\ latest_tag = Unbound
    /\ tag = None
    /\ hashes = <<>>
    /\ subjects = <<>>
    /\ i = Unbound
    /\ summaries = <<>>
    /\ reported = <<>>
    /\ calls = <<>>
    /\ out = <<>>
    /\ exit_code = "none"
    /\ error = ""
    /\ git = [readable |-> TRUE, commits |-> <<>>, created |-> {}, pushed |-> {}]
    /\ searched = <<>>
    /\ found = NotSearched

\* an uncaught exception: the traceback, and exit status 1
Raise(exception) ==
    /\ pc' = "done"
    /\ exit_code' = "1"
    /\ error' = exception

\* sys.exit(code)
Exit(code) ==
    /\ pc' = "done"
    /\ exit_code' = code
    /\ error' = error

\* lines 255-267: the latest version among the tags merged into HEAD
LatestVersion(tags_ok, tags) ==
    IF tags_ok /\ tags # <<>>
    THEN LET versions == SortVersions([k \in DOMAIN tags |-> ParseVersion(tags[k])])
         IN  versions[Len(versions)]
    ELSE None

\* main's local latest_version when line 270 reads it
LatestVersionLocal(tags_ok, tags) ==
    IF args.version = None THEN Bound(LatestVersion(tags_ok, tags)) ELSE latest_version

\* lines 253-274
ResolveVersion ==
    /\ pc = "main"
    /\ \E tags_ok \in BOOLEAN, listed \in SeqsUpTo(TagNames, MaxTags) :
        LET tags == run_command(tags_ok, listed, <<>>)
            local == LatestVersionLocal(tags_ok, tags)
        IN  IF args.version = None /\ tags_ok
                  /\ \E k \in DOMAIN tags : ParseVersion(tags[k]) = None
            THEN /\ Raise("InvalidVersion")
                 /\ UNCHANGED <<args, latest_version, latest_tag, tag>>
            ELSE IF ~local.bound
            THEN /\ Raise("UnboundLocalError")
                 /\ tag' = args.version
                 /\ UNCHANGED <<args, latest_version, latest_tag>>
            ELSE /\ latest_version' = local
                 /\ args' = IF args.version = None
                            THEN [args EXCEPT !.version =
                                    autoincrement_version(local.value, args.semver,
                                                          args.semver_bump_type)]
                            ELSE args
                 /\ tag' = args'.version
                 /\ latest_tag' = local
                 /\ pc' = "create_release_tag"
                 /\ UNCHANGED <<exit_code, error>>
    /\ UNCHANGED <<repo, hashes, subjects, i, summaries, reported, calls, out, git, searched, found>>
    /\ UNCHANGED <<slackVars, versionVars>>

\* lines 178-186
ListCommits ==
    /\ pc = "create_release_tag"
    /\ \E readable \in BOOLEAN, commits \in SeqsUpTo(Subjects, MaxCommits) :
        /\ git' = [git EXCEPT !.readable = readable, !.commits = commits]
        /\ hashes' = run_command(readable, [k \in DOMAIN commits |-> Hash(k)], GitLogStderr)
        /\ subjects' = run_command(readable, commits, GitLogStderr)
    /\ IF NoNewCommits(hashes', subjects')
       THEN Exit("0")
       ELSE /\ pc' = "get_pullrequest_infos"
            /\ UNCHANGED <<exit_code, error>>
    /\ UNCHANGED <<args, repo, latest_version, latest_tag, tag, i, summaries, reported,
                   calls, out, searched, found>>
    /\ UNCHANGED <<slackVars, versionVars>>

\* the commit the loop of line 153 takes next, counted from 1
NextCommit == IF i.bound THEN i.value + 2 ELSE 1

\* lines 153-164: one iteration
FetchPR ==
    /\ pc = "get_pullrequest_infos"
    /\ NextCommit <= Len(hashes)
    /\ \E answer \in ForgeAnswers :
        LET search == answer.search
            r == list_prs_for_hash(search, answer.reviews_ok, answer.failing)
        IN  /\ searched' = Append(searched, hashes[NextCommit])
            /\ found' = [ok |-> search.ok, matches |-> Len(search.items)]
            /\ i' = Bound(NextCommit - 1)
            /\ IF r.raised
               THEN /\ Raise("HTTPError")
                    /\ UNCHANGED summaries
               ELSE /\ summaries' =
                        IF r.pull_request # NoPullRequest
                        THEN Append(summaries, Msg(repo, r.pull_request, r.author, r.reviewers))
                        ELSE summaries
                    /\ UNCHANGED <<pc, exit_code, error>>
    /\ UNCHANGED <<args, repo, latest_version, latest_tag, tag, hashes, subjects, reported,
                   calls, out, git>>
    /\ UNCHANGED <<slackVars, versionVars>>

\* lines 166-169
CollectSummaries ==
    /\ pc = "get_pullrequest_infos"
    /\ NextCommit > Len(hashes)
    /\ summaries' = CollectedSummaries(summaries)
    /\ reported' = <<[summaries |-> Len(summaries'), commits |-> ReportedCommits(i.value)]>>
    /\ pc' = "tag"
    /\ UNCHANGED <<args, repo, latest_version, latest_tag, tag, hashes, subjects, i,
                   calls, out, exit_code, error, git, searched, found>>
    /\ UNCHANGED <<slackVars, versionVars>>

\* lines 190-202
CreateTag ==
    /\ pc = "tag"
    /\ tag' = args.version
    /\ IF args.dry_run
       THEN /\ out' = Append(out, "DRY_RUN: Would create a tag")
            /\ UNCHANGED <<calls, git>>
       ELSE \E tag_ok \in BOOLEAN :
            /\ calls' = Append(calls, [cmd |-> "git tag", name |-> tag'])
            /\ git' = IF tag_ok THEN [git EXCEPT !.created = @ \cup {tag'}] ELSE git
            /\ out' = Append(out, "Created tag")
    /\ pc' = "push"
    /\ UNCHANGED <<args, repo, latest_version, latest_tag, hashes, subjects, i, summaries,
                   reported, exit_code, error, searched, found>>
    /\ UNCHANGED <<slackVars, versionVars>>

\* lines 279-287
PushTag ==
    /\ pc = "push"
    /\ IF args.dry_run
       THEN /\ out' = Append(out, "DRY_RUN: Would push a tag")
            /\ UNCHANGED <<calls, git>>
       ELSE \E push_ok \in BOOLEAN :
            /\ calls' = Append(calls, [cmd |-> "git push", name |-> tag])
            /\ git' = IF push_ok THEN [git EXCEPT !.pushed = @ \cup {tag}] ELSE git
            /\ out' = Append(out, "Pushed tag")
    /\ Exit("0")
    /\ UNCHANGED <<args, repo, latest_version, latest_tag, tag, hashes, subjects, i,
                   summaries, reported, searched, found>>
    /\ UNCHANGED <<slackVars, versionVars>>

----------------------------------------------------------------------------
(* slack_notify_release.py *)

\* the lines a release-notes file may hold
NotesLines == {"", "#### Notes", "* item", "[x](http://y)"}

MaxNotesLines == 2

\* format_changelog_for_slack on one line of NotesLines: link, header, bullet
FormatLine(line) ==
    CASE line = "[x](http://y)" -> "<http://y|x>"
      [] line = "#### Notes" -> "*Notes*"
      [] line = "* item" -> "  - item"
      [] OTHER -> line

format_changelog_for_slack(changelog) ==
    [k \in DOMAIN changelog |-> FormatLine(changelog[k])]

SlackArgs ==
    [component : {"osbuild"}, version : ExplicitVersions,
     slack_bot_token : {"", "xoxb-1"}, slack_channel_id : {"", "C012"},
     dry_run : BOOLEAN]

NoResponse == [channel_id |-> "", message_ts |-> ""]

SlackInit ==
    /\ sargs \in SlackArgs
    /\ spc = "main"
    /\ notes_file = "unread"
    /\ release_notes = <<>>
    /\ response = NoResponse
    /\ posts = <<>>
    /\ sexit = "none"

\* lines 111-113 returning the identifiers obtained so far
ApiErrorResult_keeps_response == response

\* lines 111-113: the except clause returns (None, None)
ApiErrorResult == NoResponse

\* what one chat.postMessage call may do
PostOutcomes == {"ok", "SlackApiError", "URLError"}

\* lines 155-164
ReadNotes ==
    /\ spc = "main"
    /\ \E file \in {"missing", "unreadable", "readable"},
          content \in SeqsUpTo(NotesLines, MaxNotesLines) :
        /\ notes_file' = file
        /\ IF file = "readable"
           THEN /\ release_notes' = Strip(content)
                /\ spc' = "slack_notify_with_thread"
                /\ UNCHANGED sexit
           ELSE /\ sexit' = "1"
                /\ spc' = "done"
                /\ UNCHANGED release_notes
    /\ UNCHANGED <<sargs, response, posts>>
    /\ UNCHANGED <<tagVars, versionVars>>

\* lines 166-171
MainMessage == <<sargs.component, sargs.version>>

\* lines 59-95 and 111-113: up to the main post
PostMain ==
    /\ spc = "slack_notify_with_thread"
    /\ IF sargs.dry_run
       THEN /\ response' = [channel_id |-> "dry-run-channel", message_ts |-> "dry-run-ts"]
            /\ spc' = "report"
            /\ UNCHANGED <<posts, sexit>>
       ELSE IF sargs.slack_bot_token = "" \/ sargs.slack_channel_id = ""
       THEN /\ response' = NoResponse
            /\ spc' = "report"
            /\ UNCHANGED <<posts, sexit>>
       ELSE \E outcome \in PostOutcomes :
            /\ posts' = Append(posts, [channel |-> sargs.slack_channel_id,
                                       thread_ts |-> "", text |-> MainMessage,
                                       outcome |-> outcome])
            /\ CASE outcome = "ok" ->
                      /\ response' = [channel_id |-> sargs.slack_channel_id,
                                      message_ts |-> "ts1"]
                      /\ spc' = IF release_notes # <<>> THEN "thread" ELSE "report"
                      /\ UNCHANGED sexit
                 [] outcome = "SlackApiError" ->
                      /\ response' = ApiErrorResult
                      /\ spc' = "report"
                      /\ UNCHANGED sexit
                 [] OTHER ->
                      /\ sexit' = "1"
                      /\ spc' = "done"
                      /\ UNCHANGED response
    /\ UNCHANGED <<sargs, notes_file, release_notes>>
    /\ UNCHANGED <<tagVars, versionVars>>

\* lines 97-113: the threaded reply
PostThread ==
    /\ spc = "thread"
    /\ \E outcome \in PostOutcomes :
        /\ posts' = Append(posts, [channel |-> response.channel_id,
                                   thread_ts |-> response.message_ts,
                                   text |-> format_changelog_for_slack(release_notes),
                                   outcome |-> outcome])
        /\ CASE outcome = "ok" ->
                  /\ spc' = "report"
                  /\ UNCHANGED <<response, sexit>>
             [] outcome = "SlackApiError" ->
                  /\ response' = ApiErrorResult
                  /\ spc' = "report"
                  /\ UNCHANGED sexit
             [] OTHER ->
                  /\ sexit' = "1"
                  /\ spc' = "done"
                  /\ UNCHANGED response
    /\ UNCHANGED <<sargs, notes_file, release_notes>>
    /\ UNCHANGED <<tagVars, versionVars>>

\* line 182: both identifiers are truthy
Succeeded(r) == r.channel_id # "" /\ r.message_ts # ""

\* lines 182-187
Report ==
    /\ spc = "report"
    /\ sexit' = IF Succeeded(response) THEN "0" ELSE "1"
    /\ spc' = "done"
    /\ UNCHANGED <<sargs, notes_file, release_notes, response, posts>>
    /\ UNCHANGED <<tagVars, versionVars>>

----------------------------------------------------------------------------
(* autoincrement_version, called on its own *)

VersionInit ==
    /\ vin \in [latest : {None} \cup Releases, semver : BOOLEAN,
                semver_bump_type : BumpTypes]
    /\ vout = None
    /\ vpc = "call"

Autoincrement ==
    /\ vpc = "call"
    /\ vout' = autoincrement_version(vin.latest, vin.semver, vin.semver_bump_type)
    /\ vpc' = "returned"
    /\ UNCHANGED vin
    /\ UNCHANGED <<tagVars, slackVars>>

----------------------------------------------------------------------------
(* Specifications: one per program *)

TagIdle ==
    /\ args = [version |-> None, semver |-> FALSE, semver_bump_type |-> "major",
               dry_run |-> TRUE]
    /\ repo = "osbuild"
    /\ pc = "done"
    /\ latest_version = Unbound
    /\ latest_tag = Unbound
    /\ tag = None
    /\ hashes = <<>>
    /\ subjects = <<>>
    /\ i = Unbound
    /\ summaries = <<>>
    /\ reported = <<>>
    /\ calls = <<>>
    /\ out = <<>>
    /\ exit_code = "none"
    /\ error = ""
    /\ git = [readable |-> TRUE, commits |-> <<>>, created |-> {}, pushed |-> {}]
    /\ searched = <<>>
    /\ found = NotSearched

SlackIdle ==
    /\ sargs = [component |-> "osbuild", version |-> None, slack_bot_token |-> "",
                slack_channel_id |-> "", dry_run |-> TRUE]
    /\ spc = "done"
    /\ notes_file = "unread"
    /\ release_notes = <<>>
    /\ response = NoResponse
    /\ posts = <<>>
    /\ sexit = "none"

VersionIdle ==
    /\ vin = [latest |-> None, semver |-> FALSE, semver_bump_type |-> "major"]
    /\ vout = None
    /\ vpc = "returned"

Init == TagInit /\ SlackIdle /\ VersionIdle

Next ==
    \/ ResolveVersion
    \/ ListCommits
    \/ FetchPR
    \/ CollectSummaries
    \/ CreateTag
    \/ PushTag

Spec == Init /\ [][Next]_vars

InitSlack == TagIdle /\ SlackInit /\ VersionIdle

NextSlack ==
    \/ ReadNotes
    \/ PostMain
    \/ PostThread
    \/ Report

SpecSlack == InitSlack /\ [][NextSlack]_vars

InitVersion == TagIdle /\ SlackIdle /\ VersionInit

NextVersion == Autoincrement

SpecVersion == InitVersion /\ [][NextVersion]_vars

----------------------------------------------------------------------------
(* Properties *)

\* the run of create_tag.py has ended
Done == pc = "done"

\* the run was given --version: line 255 was skipped, so latest_version was
\* never assigned and args.version is the one given
ExplicitVersion == args.version # None /\ ~latest_version.bound

Ran(cmd) == \E k \in DOMAIN calls : calls[k].cmd = cmd

\* C1: in a live run with commits to release a failed "git tag" is fatal (no push is attempted, exit
\* code 1) and a rejected push is fatal (exit code 1); "Created tag" and
\* "Pushed tag" are reported, and the run exits 0, only if the tag was
\* created and pushed.
C1_PublishFailuresAreFatal ==
    (~args.dry_run /\ git.readable /\ git.commits # <<>>) =>
        /\ (Ran("git tag") /\ tag \notin git.created) =>
               (~Ran("git push") /\ (Done => exit_code = "1"))
        /\ (Ran("git push") /\ tag \notin git.pushed /\ Done) => exit_code = "1"
        /\ "Created tag" \in Range(out) => tag \in git.created
        /\ "Pushed tag" \in Range(out) => tag \in git.pushed

\* C2: with --dry-run create_tag.py runs neither "git tag" nor "git push" and
\* exits 0, whatever the commits and whatever the forge answers (the tags of
\* the repository being valid versions).
C2_DryRunExitsZero ==
    (args.dry_run /\ error # "InvalidVersion") =>
        /\ calls = <<>>
        /\ git.created = {} /\ git.pushed = {}
        /\ Done => exit_code = "0"

\* the commits since the last release call for no release
NothingToRelease(commits) ==
    commits = <<>> \/ (Len(commits) = 1 /\ commits[1] = PostReleaseVersionBump)

\* the run exited 0 at line 186, before any pull-request search
EarlyExit == Done /\ exit_code = "0" /\ searched = <<>> /\ out = <<>>

\* C3: once the history has been read, the run exits 0 before any
\* pull-request search, creating and pushing nothing, exactly when the commits
\* since the last release are empty or are the single commit "Post release
\* version bump"; in every other case it goes on to the searches.
C3_NoOpExactlyWhenNothingToRelease ==
    (latest_tag.bound /\ pc \notin {"main", "create_release_tag"} /\ git.readable) =>
        IF NothingToRelease(git.commits)
        THEN EarlyExit /\ calls = <<>>
        ELSE ~EarlyExit

\* one iteration of the loop of line 153 has just run
Fetched == pc = "get_pullrequest_infos" /\ Len(searched') = Len(searched) + 1

SingleMatch(f) == f.ok /\ f.matches = 1

\* C4: a commit whose search returns no match, several matches, or fails adds
\* no changelog entry and does not end the run; the commits are searched for
\* in input order; the loop ends, and the changelog is assembled, only when
\* every commit has been searched for; only a commit with a single match can
\* end the run early.
C4_SkipsAndContinues ==
    [][ /\ Fetched =>
            /\ searched' = Append(searched, hashes[Len(searched) + 1])
            /\ ~SingleMatch(found') =>
                   /\ summaries' = summaries
                   /\ pc' = "get_pullrequest_infos"
                   /\ exit_code' = "none"
        /\ (pc = "get_pullrequest_infos" /\ pc' = "tag") => searched = hashes
      ]_vars

\* a skipped commit was followed by the search for the next one, which
\* resolved: two searches, one entry
C4_Witness ==
    /\ pc = "get_pullrequest_infos"
    /\ Len(searched) = 2
    /\ SingleMatch(found)
    /\ Len(summaries) = 1

StrictlyAscending(strings) ==
    \A k \in 1..(Len(strings) - 1) : LexLess(strings[k], strings[k + 1])

\* C5: the assembled changelog holds exactly the distinct entries collected,
\* each once, in strictly ascending lexicographic order, whatever the order
\* the commits came in.
C5_ChangelogDedupedAndSorted ==
    [][ (pc = "get_pullrequest_infos" /\ pc' = "tag") =>
            /\ Range(summaries') = Range(summaries)
            /\ StrictlyAscending(summaries')
      ]_vars

\* two commits were resolved and the changelog was assembled with two entries
C5_Witness ==
    /\ pc = "tag"
    /\ Len(searched) = 2
    /\ Len(summaries) = 2
    /\ LexLess(summaries[1], summaries[2])

PostingSucceeded ==
    /\ Len(posts) = (IF release_notes = <<>> THEN 1 ELSE 2)
    /\ \A k \in DOMAIN posts : posts[k].outcome = "ok"

\* C6: the notification script exits 0 exactly when the notes file was read
\* and either the run was a dry run or every post succeeded, and exits 1
\* otherwise; with a missing or unreadable file no post is attempted; a live
\* run with an empty token or channel exits 1.
C6_ExitCodeReportsPosting ==
    spc = "done" =>
        /\ sexit \in {"0", "1"}
        /\ sexit = "0" <=>
               (notes_file = "readable" /\ (sargs.dry_run \/ PostingSucceeded))
        /\ notes_file # "readable" => posts = <<>>
        /\ (~sargs.dry_run
              /\ (sargs.slack_bot_token = "" \/ sargs.slack_channel_id = "")) =>
               sexit = "1"

\* the main post went through, the threaded reply met an API error, exit 1
C6_Witness ==
    /\ spc = "done"
    /\ sexit = "1"
    /\ Len(posts) = 2
    /\ posts[1].outcome = "ok"
    /\ posts[2].outcome = "SlackApiError"

\* C7: in semantic-versioning mode a prior major.minor.patch gives
\* (major+1).0.0, major.(minor+1).0 or major.minor.(patch+1) by bump type; no
\* prior version gives 1.0.0, 0.1.0 or 0.0.1.
C7_SemverBump ==
    (vpc = "returned" /\ vin.semver) =>
        /\ vin.latest = None =>
               /\ vin.semver_bump_type = "major" => vout = <<1, 0, 0>>
               /\ vin.semver_bump_type = "minor" => vout = <<0, 1, 0>>
               /\ vin.semver_bump_type = "patch" => vout = <<0, 0, 1>>
        /\ (vin.latest # None /\ Len(vin.latest) = 3) =>
               /\ vin.semver_bump_type = "major" => vout = <<vin.latest[1] + 1, 0, 0>>
               /\ vin.semver_bump_type = "minor" =>
                      vout = <<vin.latest[1], vin.latest[2] + 1, 0>>
               /\ vin.semver_bump_type = "patch" =>
                      vout = <<vin.latest[1], vin.latest[2], vin.latest[3] + 1>>

\* a minor bump of a version with a non-zero patch number has returned
C7_Witness ==
    /\ vpc = "returned"
    /\ vin.semver
    /\ vin.semver_bump_type = "minor"
    /\ vin.latest # None
    /\ Len(vin.latest) = 3
    /\ vin.latest[3] > 0

\* C8: in plain mode the result keeps every component of the prior version
\* but the last, which is one more, for any number of components; no prior
\* version gives 1.
C8_PlainBumpsLastComponent ==
    (vpc = "returned" /\ ~vin.semver) =>
        IF vin.latest = None
        THEN vout = <<1>>
        ELSE /\ Len(vout) = Len(vin.latest)
             /\ \A k \in 1..(Len(vout) - 1) : vout[k] = vin.latest[k]
             /\ vout[Len(vout)] = vin.latest[Len(vin.latest)] + 1

\* a plain bump of a three-component version has returned
C8_Witness ==
    /\ vpc = "returned"
    /\ ~vin.semver
    /\ vin.latest # None
    /\ Len(vin.latest) = 3
    /\ vout[1] = vin.latest[1]

\* C9: the commit count reported at line 168 is the number of commits that
\* were searched for, and the summary count is the number of changelog
\* entries.
C9_ReportedCommitCount ==
    (reported # <<>> /\ git.readable) =>
        /\ reported[1].commits = Len(searched)
        /\ reported[1].summaries = Len(summaries)

\* C10: a run given --version does not end abnormally before the commits are
\* listed: it reaches line 178 with latest_tag defined, and a live run with
\* qualifying commits creates and pushes the tag of that version.
C10_ExplicitVersionReachesEnumeration ==
    (ExplicitVersion /\ Done) =>
        /\ error # "UnboundLocalError"
        /\ latest_tag.bound

====
